---- MODULE Spec2Model ----
(***************************************************************************)
(* The parallel generation-stepping engine of goi.c: the rule engine       *)
(* (getNextState), the persistent worker threads (subroutine) and the      *)
(* coordinator (goi) with its per-worker gates, the generation barrier,    *)
(* the death-toll mutex and the hand-managed world buffers.                *)
(*                                                                         *)
(* A grid is a sequence of faction ids in row-major order: the cell with   *)
(* flattened index c (0-based, as in the C code) is element c + 1.         *)
(***************************************************************************)
EXTENDS Integers, Sequences, FiniteSets, TLC

\* ------------------------------------------------------------------ bounds

\* Main run (Spec): largest thread count, generation count and grid drawn.
MaxThreads == 3
MaxGen == 2
MaxRows == 2
MaxCols == 2
\* Main run: the longest invasion schedule drawn.
MaxInvasions == 2
\* Rule engine (SpecRule): grid dimensions and the largest live faction id.
RuleRows == 3
RuleCols == 3
RuleFactions == 2

\* ------------------------------------------------------- program constants

MAX_FACTIONS == 10
DEAD_FACTION == 0

\* The empty grid stands for the NULL pointer where a grid is passed by value.
NoGrid == << >>
\* What util's getValueAt answers for a position outside the grid.
OutOfGrid == -1

\* ------------------------------------------------------------- rule engine

\* Lines 23-26. (Variant: birth on no neighbour at all.)
isBirthableZero(n) == n = 0
isBirthable(n) == n = 3

\* Lines 31-34. (Variant: two or more friends keep a cell alive.)
isSurvivableCrowded(n) == n >= 2
isSurvivable(n) == n = 2 \/ n = 3

\* Lines 39-41. (Variant: one hostile neighbour is not enough.)
willFightTwo(n) == n > 1
willFight(n) == n > 0

\* util.h (not part of the sources at hand): row-major read, and no faction
\* at all outside [0,nRows) x [0,nCols).
getValueAt(grid, nR, nC, row, col) ==
    IF row < 0 \/ row >= nR \/ col < 0 \/ col >= nC
    THEN OutOfGrid
    ELSE grid[row * nC + col + 1]

\* util.h: row-major write; a position outside the grid is left alone.
setValueAt(grid, nR, nC, row, col, val) ==
    IF row < 0 \/ row >= nR \/ col < 0 \/ col >= nC
    THEN grid
    ELSE [grid EXCEPT ![row * nC + col + 1] = val]

getRow(nR, nC, index) == index \div nC

getCol(nR, nC, index) == index % nC

\* Lines 64-82: the tally over the 3x3 block around (row, col), the cell
\* itself included, then the cell's own faction taken out once.
Offsets == (-1 .. 1) \X (-1 .. 1)

neighborCounts(currWorld, nR, nC, row, col) ==
    LET cellFaction == getValueAt(currWorld, nR, nC, row, col)
        block == [d \in Offsets |->
                     getValueAt(currWorld, nR, nC, row + d[1], col + d[2])]
        seen(f) == Cardinality({d \in Offsets : block[d] = f})
    IN  [f \in 0 .. MAX_FACTIONS - 1 |->
            IF f = cellFaction THEN seen(f) - 1 ELSE seen(f)]

\* Variant of birthScan below: the scan keeps the first birthable faction.
RECURSIVE birthScanFirst(_, _, _)
birthScanFirst(counts, faction, newFaction) ==
    IF faction >= MAX_FACTIONS
    THEN newFaction
    ELSE birthScanFirst(counts, faction + 1,
                        IF isBirthable(counts[faction]) /\ newFaction = DEAD_FACTION
                        THEN faction ELSE newFaction)

\* Lines 90-100: the ascending scan; a later birthable faction overwrites.
RECURSIVE birthScan(_, _, _)
birthScan(counts, faction, newFaction) ==
    IF faction >= MAX_FACTIONS
    THEN newFaction
    ELSE birthScan(counts, faction + 1,
                   IF isBirthable(counts[faction]) THEN faction ELSE newFaction)

\* Lines 114-122: neighbours of every live faction but the cell's own.
RECURSIVE hostileSum(_, _, _)
hostileSum(counts, cellFaction, faction) ==
    IF faction >= MAX_FACTIONS
    THEN 0
    ELSE (IF faction = cellFaction THEN 0 ELSE counts[faction])
         + hostileSum(counts, cellFaction, faction + 1)

\* Variant of getNextState below: a landing never counts a death.
getNextStateNoLandingToll(currWorld, invaders, nR, nC, row, col) ==
    LET cellFaction == getValueAt(currWorld, nR, nC, row, col)
        counts == neighborCounts(currWorld, nR, nC, row, col)
    IN  IF invaders # NoGrid /\ getValueAt(invaders, nR, nC, row, col) # DEAD_FACTION
        THEN [next |-> getValueAt(invaders, nR, nC, row, col), died |-> FALSE]
        ELSE IF cellFaction = DEAD_FACTION
        THEN [next |-> birthScan(counts, DEAD_FACTION + 1, DEAD_FACTION), died |-> FALSE]
        ELSE IF willFight(hostileSum(counts, cellFaction, DEAD_FACTION + 1))
        THEN [next |-> DEAD_FACTION, died |-> TRUE]
        ELSE IF ~isSurvivable(counts[cellFaction])
        THEN [next |-> DEAD_FACTION, died |-> FALSE]
        ELSE [next |-> cellFaction, died |-> FALSE]

\* Lines 49-138: the next faction of (row, col) and whether the cell counts
\* towards the death toll (*diedDueToFighting).
getNextState(currWorld, invaders, nR, nC, row, col) ==
    LET cellFaction == getValueAt(currWorld, nR, nC, row, col)
        counts == neighborCounts(currWorld, nR, nC, row, col)
    IN  IF invaders # NoGrid /\ getValueAt(invaders, nR, nC, row, col) # DEAD_FACTION
        THEN [next |-> getValueAt(invaders, nR, nC, row, col),
              died |-> cellFaction # DEAD_FACTION]
        ELSE IF cellFaction = DEAD_FACTION
        THEN [next |-> birthScan(counts, DEAD_FACTION + 1, DEAD_FACTION), died |-> FALSE]
        ELSE IF willFight(hostileSum(counts, cellFaction, DEAD_FACTION + 1))
        THEN [next |-> DEAD_FACTION, died |-> TRUE]
        ELSE IF ~isSurvivable(counts[cellFaction])
        THEN [next |-> DEAD_FACTION, died |-> FALSE]
        ELSE [next |-> cellFaction, died |-> FALSE]

\* ------------------------------------------------------------------- state

VARIABLES
    call,           \* SpecRule: one call of getNextState, inputs and outputs
    \* goi's arguments (never written)
    nThreads, nGenerations, startWorld, nRows, nCols,
    nInvasions, invasionTimes, invasionPlans,
    \* goi's locals and the global barrier
    pc,             \* where the coordinator (the thread running goi) is
    ret,            \* goi's return value once pc = "done"
    deathToll,      \* line 203
    mutex,          \* line 205: the holder of the death-toll mutex, or Nobody
    isReady,        \* line 209: per worker gate, "uninit" | "unlocked" | "locked"
    barrier,        \* line 198: threads waiting in the current barrier cycle
    sharedStructs,  \* line 211: the array of control blocks, "none" | "live" | "freed"
    items,          \* the control blocks (struct sharedStruct), by tid
    index,          \* line 218
    world, inv, wholeNewWorld,   \* pointers into heap (NULL = 0)
    spawnThreads, invasionIndex,
    i,              \* the generation loop's counter (line 285)
    t,              \* the counter of the setup, publish, join loops
    heap,           \* every int buffer malloc returned: [st, data]
    \* subroutine's locals, by tid
    wpc,            \* where worker tid is ("none": not created)
    wk,             \* k, line 168
    wi,             \* i, line 170
    wtmp,           \* the value loaded by (*deathToll)++
    \* history
    fault,          \* undefined behaviour met so far (a set of names)
    reports         \* calls of getNextState that set *diedDueToFighting

inputs == << nThreads, nGenerations, startWorld, nRows, nCols,
             nInvasions, invasionTimes, invasionPlans >>
coordVars == << pc, ret, sharedStructs, index, world, inv, wholeNewWorld,
                spawnThreads, invasionIndex, i, t >>
workerVars == << wpc, wk, wi, wtmp >>
sharedVars == << deathToll, mutex, isReady, barrier, items, heap >>
mainVars == << inputs, coordVars, workerVars, sharedVars, fault, reports >>
vars == << call, mainVars >>

NULL == 0
Nobody == -1
\* A cell of a buffer malloc returned and nobody wrote yet.
Uninit == -2

\* --------------------------------------------------- Spec: one call of goi

Workers == 0 .. nThreads - 1

\* Lines 216-217. (Variant of threadSize: the quotient rounded up.)
totalGrids == nRows * nCols
threadSizeCeil == (totalGrids + nThreads - 1) \div nThreads
threadSize == totalGrids \div nThreads

Min(a, b) == IF a <= b THEN a ELSE b

\* Line 210: pthread_barrier_init(&barrier, NULL, nThreads + 1).
\* (Variant: the coordinator is not counted.)
BarrierCountWorkersOnly == nThreads
BarrierCount == nThreads + 1

\* The worlds goi is started on: no live cell, two factions alternating
\* along the flattened index, one faction everywhere.
StartWorlds(n) ==
    { [c \in 1 .. n |-> 0], [c \in 1 .. n |-> ((c - 1) % 2) + 1], [c \in 1 .. n |-> 1] }

\* The overlay of the j-th scheduled invasion: faction 2 lands on every cell
\* (odd j), faction 1 lands on cell 0 alone (even j).
Plan(j, n) == [c \in 1 .. n |-> IF j % 2 = 1 THEN 2 ELSE (IF c = 1 THEN 1 ELSE 0)]

NoItem == [alloc |-> "none", world |-> NULL, inv |-> NULL, wholeNewWorld |-> NULL,
           iteration |-> 0, tid |-> 0, startIdx |-> 0, endIdx |-> 0,
           totalIteration |-> 0]

NoCall == [world |-> NoGrid, inv |-> NoGrid, done |-> TRUE,
           index |-> 0, next |-> 0, died |-> FALSE]

\* goi entered: lines 203-210, nothing allocated yet.
MainStart ==
    /\ pc = "mallocStructs" /\ ret = 0
    /\ deathToll = 0 /\ mutex = Nobody
    /\ isReady = [w \in Workers |-> "uninit"]
    /\ barrier = 0
    /\ sharedStructs = "none"
    /\ items = [w \in Workers |-> NoItem]
    /\ index = 0
    /\ world = NULL /\ inv = NULL /\ wholeNewWorld = NULL
    /\ spawnThreads = FALSE /\ invasionIndex = 0
    /\ i = 1 /\ t = 0
    /\ heap = << >>
    /\ wpc = [w \in Workers |-> "none"]
    /\ wk = [w \in Workers |-> 0]
    /\ wi = [w \in Workers |-> 0]
    /\ wtmp = [w \in Workers |-> 0]
    /\ fault = {}
    /\ reports = 0

Init ==
    /\ call = NoCall
    /\ nThreads \in 1 .. MaxThreads
    /\ nGenerations \in 0 .. MaxGen
    /\ nRows \in 1 .. MaxRows
    /\ nCols \in 1 .. MaxCols
    /\ startWorld \in StartWorlds(nRows * nCols)
    /\ nInvasions \in 0 .. MaxInvasions
    /\ invasionTimes \in [1 .. nInvasions -> 0 .. nGenerations + 1]
    /\ invasionPlans = [j \in 1 .. nInvasions |-> Plan(j, nRows * nCols)]
    /\ MainStart

\* ---- the heap of int buffers

IsLive(p) == p \in DOMAIN heap /\ heap[p].st = "live"

\* malloc(sizeof(int) * nRows * nCols) followed by the copy loop, or left
\* unwritten: the new buffer is the next pointer.
NewPtr == Len(heap) + 1
Malloc(h, data) == Append(h, [st |-> "live", data |-> data])
Fresh == [c \in 1 .. totalGrids |-> Uninit]

\* free(p): the block is gone; freeing anything but a live block is a fault.
Free(h, p) == IF p \in DOMAIN h THEN [h EXCEPT ![p] = [st |-> "freed", data |-> NoGrid]] ELSE h
FreeFault(h, p) == IF p \in DOMAIN h /\ h[p].st = "live" THEN {} ELSE {"badFree"}

\* goi has neither called exit nor crashed: the process is still there.
Running == pc \notin {"exit", "crashed"}

\* ---- the coordinator: goi

\* Lines 211-215.
MallocStructs ==
    /\ pc = "mallocStructs"
    /\ \E ok \in BOOLEAN :
          IF ok THEN /\ sharedStructs' = "live"
                     /\ pc' = "mallocWorld"
                ELSE /\ pc' = "exit"
                     /\ UNCHANGED sharedStructs
    /\ UNCHANGED << call, inputs, ret, index, world, inv, wholeNewWorld, spawnThreads,
                    invasionIndex, i, t, workerVars, sharedVars, fault, reports >>

\* Lines 222-233: the copy of startWorld, or -1.
MallocWorld ==
    /\ pc = "mallocWorld"
    /\ \E ok \in BOOLEAN :
          IF ok THEN /\ heap' = Malloc(heap, startWorld)
                     /\ world' = NewPtr
                     /\ pc' = "setup"
                     /\ UNCHANGED ret
                ELSE /\ ret' = -1
                     /\ pc' = "done"
                     /\ UNCHANGED << heap, world >>
    /\ UNCHANGED << call, inputs, sharedStructs, index, inv, wholeNewWorld, spawnThreads,
                    invasionIndex, i, t, workerVars, deathToll, mutex, isReady, barrier,
                    items, fault, reports >>

\* Line 267: the last worker's range ends with the grid.
\* (Variant: it ends one threadSize after its start, like the others.)
lastEndIdxNoRest == index + threadSize
lastEndIdx == totalGrids

\* Lines 236-254 (t < nThreads - 1) and 257-272 (the last): one control block.
\* malloc's result is not tested: NULL is written through and the process dies.
SetupItem ==
    /\ pc = "setup"
    /\ \E ok \in BOOLEAN :
          IF ~ok
          THEN /\ pc' = "crashed"
               /\ UNCHANGED << items, isReady, index, t >>
          ELSE /\ items' = [items EXCEPT ![t] =
                    [NoItem EXCEPT !.alloc = "live", !.world = world, !.tid = t,
                                   !.startIdx = index,
                                   !.endIdx = IF t < nThreads - 1
                                              THEN Min(index + threadSize, totalGrids)
                                              ELSE lastEndIdx,
                                   !.totalIteration = nGenerations]]
               /\ isReady' = [isReady EXCEPT ![t] = "unlocked"]
               /\ index' = IF t < nThreads - 1 THEN index + threadSize ELSE index
               /\ t' = IF t < nThreads - 1 THEN t + 1 ELSE 0
               /\ pc' = IF t < nThreads - 1 THEN "setup" ELSE "loop"
    /\ UNCHANGED << call, inputs, ret, sharedStructs, world, inv, wholeNewWorld,
                    spawnThreads, invasionIndex, i, workerVars, deathToll, mutex,
                    barrier, heap, fault, reports >>

\* Line 289.
\* (Variants: only the first event is ever looked at; an event whose time
\* has passed is still due.)
InvasionDueFirst == invasionIndex < nInvasions /\ i = invasionTimes[1]
InvasionDueLate == invasionIndex < nInvasions /\ i >= invasionTimes[invasionIndex + 1]
InvasionDue == invasionIndex < nInvasions /\ i = invasionTimes[invasionIndex + 1]

\* Line 285, false: the loop is over.
LoopEnd ==
    /\ pc = "loop" /\ ~(i <= nGenerations)
    /\ pc' = "join" /\ t' = 0
    /\ UNCHANGED << call, inputs, ret, sharedStructs, index, world, inv, wholeNewWorld,
                    spawnThreads, invasionIndex, i, workerVars, sharedVars, fault, reports >>

\* Lines 285-306 without an invasion this generation.
LoopNoInvasion ==
    /\ pc = "loop" /\ i <= nGenerations /\ ~InvasionDue
    /\ inv' = NULL
    /\ pc' = "mallocNext"
    /\ UNCHANGED << call, inputs, ret, sharedStructs, index, world, wholeNewWorld,
                    spawnThreads, invasionIndex, i, t, workerVars, sharedVars, fault,
                    reports >>

\* Lines 285-306 with one: the overlay is copied, or world is freed and -1 returned.
LoopInvasion ==
    /\ pc = "loop" /\ i <= nGenerations /\ InvasionDue
    /\ \E ok \in BOOLEAN :
          IF ok THEN /\ heap' = Malloc(heap, invasionPlans[invasionIndex + 1])
                     /\ inv' = NewPtr
                     /\ invasionIndex' = invasionIndex + 1
                     /\ pc' = "mallocNext"
                     /\ UNCHANGED << ret, fault >>
                ELSE /\ heap' = Free(heap, world)
                     /\ fault' = fault \cup FreeFault(heap, world)
                     /\ inv' = NULL
                     /\ ret' = -1
                     /\ pc' = "done"
                     /\ UNCHANGED invasionIndex
    /\ UNCHANGED << call, inputs, sharedStructs, index, world, wholeNewWorld,
                    spawnThreads, i, t, workerVars, deathToll, mutex, isReady, barrier,
                    items, reports >>

\* Lines 310-319: the next buffer, or everything int-sized freed and -1.
MallocNext ==
    /\ pc = "mallocNext"
    /\ \E ok \in BOOLEAN :
          IF ok THEN /\ heap' = Malloc(heap, Fresh)
                     /\ wholeNewWorld' = NewPtr
                     /\ t' = 0
                     /\ pc' = "publish"
                     /\ UNCHANGED << ret, fault >>
                ELSE /\ heap' = Free(IF inv # NULL THEN Free(heap, inv) ELSE heap, world)
                     /\ fault' = fault \cup (IF inv # NULL THEN FreeFault(heap, inv) ELSE {})
                                       \cup FreeFault(heap, world)
                     /\ ret' = -1
                     /\ pc' = "done"
                     /\ UNCHANGED << wholeNewWorld, t >>
    /\ UNCHANGED << call, inputs, sharedStructs, index, world, inv, spawnThreads,
                    invasionIndex, i, workerVars, deathToll, mutex, isReady, barrier,
                    items, reports >>

\* Lines 324-328: this generation's inputs written into worker t's block.
Publish ==
    /\ pc = "publish"
    /\ items' = [items EXCEPT ![t].world = world, ![t].inv = inv,
                              ![t].wholeNewWorld = wholeNewWorld, ![t].iteration = i]
    /\ pc' = "release"
    /\ UNCHANGED << call, inputs, ret, sharedStructs, index, world, inv, wholeNewWorld,
                    spawnThreads, invasionIndex, i, t, workerVars, deathToll, mutex,
                    isReady, barrier, heap, fault, reports >>

\* Lines 329-339: the gate of worker t is unlocked (whoever locked it, and
\* also when nobody did: the mutex is a default one, and ends unlocked) and,
\* in the first generation, the thread is created; pthread_create failing
\* ends the process. After the last t, lines 342-343 follow.
Release ==
    /\ pc = "release"
    /\ isReady' = [isReady EXCEPT ![t] = "unlocked"]
    /\ \E ok \in BOOLEAN :
          /\ (spawnThreads => ok)
          /\ IF ~ok
             THEN /\ pc' = "exit"
                  /\ UNCHANGED << wpc, wk, t, spawnThreads >>
             ELSE /\ wpc' = IF spawnThreads THEN wpc ELSE [wpc EXCEPT ![t] = "start"]
                  /\ wk' = IF spawnThreads THEN wk ELSE [wk EXCEPT ![t] = 1]
                  /\ t' = t + 1
                  /\ pc' = IF t + 1 < nThreads THEN "publish" ELSE "barrier"
                  /\ spawnThreads' = IF t + 1 < nThreads THEN spawnThreads ELSE TRUE
    /\ UNCHANGED << call, inputs, ret, sharedStructs, index, world, inv, wholeNewWorld,
                    invasionIndex, i, wi, wtmp, deathToll, mutex, barrier, items, heap,
                    fault, reports >>

\* pthread_barrier_wait: the arrival that completes the count lets every
\* waiting thread go and starts a new cycle; any other arrival waits.
\* (Variant: no arrival ever waits.)
BarrierFullAlways == TRUE
BarrierFull == barrier + 1 >= BarrierCount

\* Line 343.
CoordBarrier ==
    /\ pc = "barrier"
    /\ IF BarrierFull
       THEN /\ barrier' = 0
            /\ pc' = "passed"
            /\ wpc' = [w \in Workers |-> IF wpc[w] = "inBarrier" THEN "passed" ELSE wpc[w]]
       ELSE /\ barrier' = barrier + 1
            /\ pc' = "inBarrier"
            /\ UNCHANGED wpc
    /\ UNCHANGED << call, inputs, ret, sharedStructs, index, world, inv, wholeNewWorld,
                    spawnThreads, invasionIndex, i, t, wk, wi, wtmp, deathToll, mutex,
                    isReady, items, heap, fault, reports >>

\* Variant of Swap below: the old world is not freed.
SwapKeepsOld ==
    /\ pc = "passed"
    /\ heap' = IF inv # NULL THEN Free(heap, inv) ELSE heap
    /\ fault' = fault \cup (IF inv # NULL THEN FreeFault(heap, inv) ELSE {})
    /\ world' = wholeNewWorld
    /\ i' = i + 1
    /\ pc' = "loop"
    /\ UNCHANGED << call, inputs, ret, sharedStructs, index, inv, wholeNewWorld,
                    spawnThreads, invasionIndex, t, workerVars, deathToll, mutex, isReady,
                    barrier, items, reports >>

\* Lines 345-353 and the loop's i++: the overlay copy and the old world are
\* freed, the next buffer becomes the world.
Swap ==
    /\ pc = "passed"
    /\ heap' = Free(IF inv # NULL THEN Free(heap, inv) ELSE heap, world)
    /\ fault' = fault \cup (IF inv # NULL THEN FreeFault(heap, inv) ELSE {})
                      \cup FreeFault(heap, world)
    /\ world' = wholeNewWorld
    /\ i' = i + 1
    /\ pc' = "loop"
    /\ UNCHANGED << call, inputs, ret, sharedStructs, index, inv, wholeNewWorld,
                    spawnThreads, invasionIndex, t, workerVars, deathToll, mutex, isReady,
                    barrier, items, reports >>

\* Lines 365-367, a thread that was created: goi waits until it has ended.
JoinCreated ==
    /\ pc = "join" /\ t < nThreads /\ wpc[t] = "exited"
    /\ wpc' = [wpc EXCEPT ![t] = "joined"]
    /\ t' = t + 1
    /\ UNCHANGED << call, inputs, pc, ret, sharedStructs, index, world, inv, wholeNewWorld,
                    spawnThreads, invasionIndex, i, wk, wi, wtmp, sharedVars, fault,
                    reports >>

\* Lines 365-367 when threads[t] was never written (no generation ran):
\* pthread_join on an indeterminate pthread_t returns an error at once or
\* takes the process down.
JoinUncreated ==
    /\ pc = "join" /\ t < nThreads /\ wpc[t] = "none"
    /\ fault' = fault \cup {"joinUncreated"}
    /\ \/ t' = t + 1 /\ pc' = pc
       \/ t' = t /\ pc' = "crashed"
    /\ UNCHANGED << call, inputs, ret, sharedStructs, index, world, inv, wholeNewWorld,
                    spawnThreads, invasionIndex, i, workerVars, sharedVars, reports >>

\* Lines 369-381: the last world, the control blocks and their array are
\* freed and the death toll returned.
Cleanup ==
    /\ pc = "join" /\ t >= nThreads
    /\ heap' = Free(heap, world)
    /\ fault' = fault \cup FreeFault(heap, world)
                      \cup (IF \E w \in Workers : items[w].alloc # "live"
                            THEN {"badFree"} ELSE {})
    /\ items' = [w \in Workers |-> [items[w] EXCEPT !.alloc = "freed"]]
    /\ sharedStructs' = "freed"
    /\ ret' = deathToll
    /\ pc' = "done"
    /\ UNCHANGED << call, inputs, index, world, inv, wholeNewWorld, spawnThreads,
                    invasionIndex, i, t, workerVars, deathToll, mutex, isReady, barrier,
                    reports >>

\* ---- the workers: subroutine

\* Line 168: the loop's test, at entry and after each barrier (with k++).
\* (Variant of the test: one iteration fewer.)
MoreIterationsShort(k, total) == k < total
MoreIterations(k, total) == k <= total

WLoop(w) ==
    /\ Running /\ wpc[w] \in {"start", "passed"}
    /\ LET k == IF wpc[w] = "start" THEN wk[w] ELSE wk[w] + 1
       IN  /\ wk' = [wk EXCEPT ![w] = k]
           /\ wpc' = [wpc EXCEPT ![w] = IF MoreIterations(k, items[w].totalIteration)
                                        THEN "gate" ELSE "exited"]
    /\ UNCHANGED << call, inputs, coordVars, wi, wtmp, sharedVars, fault, reports >>

\* pthread_mutex_lock on a default mutex: waits while it is locked, by
\* whichever thread (the caller itself included).
\* (Variant: the lock never waits.)
CanLockAlways(m) == TRUE
CanLock(m) == m = "unlocked"

\* The int i = startIdx of line 170. (Variant: every worker starts at cell 0.)
FirstCellZero(w) == 0
FirstCell(w) == items[w].startIdx

\* Lines 169-170: through the gate, to the first cell of the partition.
WGate(w) ==
    /\ Running /\ wpc[w] = "gate"
    /\ CanLock(isReady[w])
    /\ isReady' = [isReady EXCEPT ![w] = "locked"]
    /\ wi' = [wi EXCEPT ![w] = FirstCell(w)]
    /\ wpc' = [wpc EXCEPT ![w] = IF FirstCell(w) < items[w].endIdx
                                 THEN "cell" ELSE "barrier"]
    /\ UNCHANGED << call, inputs, coordVars, wk, wtmp, deathToll, mutex, barrier, items,
                    heap, fault, reports >>

\* The i++ and test of line 170.
NextCell(w) == IF wi[w] + 1 < items[w].endIdx THEN "cell" ELSE "barrier"

\* A read of the 3x3 block around (row, col) meets a cell nobody wrote.
ReadsUninit(grid, row, col) ==
    \E d \in Offsets : getValueAt(grid, nRows, nCols, row + d[1], col + d[2]) = Uninit

\* Lines 171-179: cell wi of the published world is computed and written to
\* the published next buffer. Reading a freed or unwritten buffer gives
\* anything.
WCell(w) ==
    /\ Running /\ wpc[w] = "cell"
    /\ LET it == items[w]
           row == getRow(nRows, nCols, wi[w])
           col == getCol(nRows, nCols, wi[w])
           badRead == \/ ~IsLive(it.world)
                      \/ it.inv # NULL /\ ~IsLive(it.inv)
                      \/ ReadsUninit(heap[it.world].data, row, col)
           results == IF badRead
                      THEN [next : 0 .. 2, died : BOOLEAN]
                      ELSE {getNextState(heap[it.world].data,
                                         IF it.inv = NULL THEN NoGrid ELSE heap[it.inv].data,
                                         nRows, nCols, row, col)}
       IN  \E r \in results :
              /\ heap' = IF IsLive(it.wholeNewWorld)
                         THEN [heap EXCEPT ![it.wholeNewWorld].data =
                                   setValueAt(@, nRows, nCols, row, col, r.next)]
                         ELSE heap
              /\ fault' = fault \cup (IF badRead THEN {"badRead"} ELSE {})
                                \cup (IF IsLive(it.wholeNewWorld) THEN {} ELSE {"badWrite"})
              /\ reports' = IF r.died THEN reports + 1 ELSE reports
              /\ wpc' = [wpc EXCEPT ![w] = IF r.died THEN "dtLock" ELSE NextCell(w)]
              /\ wi' = IF r.died THEN wi ELSE [wi EXCEPT ![w] = wi[w] + 1]
    /\ UNCHANGED << call, inputs, coordVars, wk, wtmp, deathToll, mutex, isReady, barrier,
                    items >>

\* Line 182: pthread_mutex_lock(sharedVariables->mutex).
\* (Variant: the lock never waits.)
MutexFreeAlways == TRUE
MutexFree == mutex = Nobody

WTollLock(w) ==
    /\ Running /\ wpc[w] = "dtLock"
    /\ MutexFree
    /\ mutex' = w
    /\ wpc' = [wpc EXCEPT ![w] = "dtLoad"]
    /\ UNCHANGED << call, inputs, coordVars, wk, wi, wtmp, deathToll, isReady, barrier,
                    items, heap, fault, reports >>

\* Line 184, the load of (*deathToll)++ ...
WTollLoad(w) ==
    /\ Running /\ wpc[w] = "dtLoad"
    /\ wtmp' = [wtmp EXCEPT ![w] = deathToll]
    /\ wpc' = [wpc EXCEPT ![w] = "dtStore"]
    /\ UNCHANGED << call, inputs, coordVars, wk, wi, sharedVars, fault, reports >>

\* ... and its store.
WTollStore(w) ==
    /\ Running /\ wpc[w] = "dtStore"
    /\ deathToll' = wtmp[w] + 1
    /\ wpc' = [wpc EXCEPT ![w] = "dtUnlock"]
    /\ UNCHANGED << call, inputs, coordVars, wk, wi, wtmp, mutex, isReady, barrier, items,
                    heap, fault, reports >>

\* Line 185, then on to the next cell.
WTollUnlock(w) ==
    /\ Running /\ wpc[w] = "dtUnlock"
    /\ mutex' = Nobody
    /\ wpc' = [wpc EXCEPT ![w] = NextCell(w)]
    /\ wi' = [wi EXCEPT ![w] = wi[w] + 1]
    /\ UNCHANGED << call, inputs, coordVars, wk, wtmp, deathToll, isReady, barrier, items,
                    heap, fault, reports >>

\* Line 188.
WBarrier(w) ==
    /\ Running /\ wpc[w] = "barrier"
    /\ IF BarrierFull
       THEN /\ barrier' = 0
            /\ wpc' = [v \in Workers |-> IF v = w \/ wpc[v] = "inBarrier"
                                         THEN "passed" ELSE wpc[v]]
            /\ pc' = IF pc = "inBarrier" THEN "passed" ELSE pc
       ELSE /\ barrier' = barrier + 1
            /\ wpc' = [wpc EXCEPT ![w] = "inBarrier"]
            /\ UNCHANGED pc
    /\ UNCHANGED << call, inputs, ret, sharedStructs, index, world, inv, wholeNewWorld,
                    spawnThreads, invasionIndex, i, t, wk, wi, wtmp, deathToll, mutex,
                    isReady, items, heap, fault, reports >>

Next ==
    \/ MallocStructs \/ MallocWorld \/ SetupItem
    \/ LoopEnd \/ LoopNoInvasion \/ LoopInvasion \/ MallocNext
    \/ Publish \/ Release \/ CoordBarrier \/ Swap
    \/ JoinCreated \/ JoinUncreated \/ Cleanup
    \/ \E w \in Workers : WLoop(w)
    \/ \E w \in Workers : WGate(w)
    \/ \E w \in Workers : WCell(w)
    \/ \E w \in Workers : WTollLock(w)
    \/ \E w \in Workers : WTollLoad(w)
    \/ \E w \in Workers : WTollStore(w)
    \/ \E w \in Workers : WTollUnlock(w)
    \/ \E w \in Workers : WBarrier(w)

Spec == Init /\ [][Next]_vars

\* ------------------------------------------------------ claims about Spec

\* The sequential run the parallel one is measured against: generation g's
\* world, death toll and schedule position, every cell computed from the
\* world of generation g - 1.
RECURSIVE RefRun(_)
RefRun(g) ==
    IF g = 0
    THEN [world |-> startWorld, toll |-> 0, idx |-> 0]
    ELSE LET p == RefRun(g - 1)
             due == p.idx < nInvasions /\ g = invasionTimes[p.idx + 1]
             ov == IF due THEN invasionPlans[p.idx + 1] ELSE NoGrid
             res == [c \in 1 .. totalGrids |->
                        getNextState(p.world, ov, nRows, nCols,
                                     getRow(nRows, nCols, c - 1), getCol(nRows, nCols, c - 1))]
         IN  [world |-> [c \in 1 .. totalGrids |-> res[c].next],
              toll |-> p.toll + Cardinality({c \in 1 .. totalGrids : res[c].died}),
              idx |-> IF due THEN p.idx + 1 ELSE p.idx]

Returned == pc = "done" /\ ret # -1
Computing(w) == wpc[w] \in {"cell", "dtLock", "dtLoad", "dtStore", "dtUnlock"}
SetupDone == \A w \in Workers : items[w].alloc # "none"
LiveBuffers == {p \in DOMAIN heap : heap[p].st = "live"}

\* C1: whatever the interleaving, the world at the top of the generation loop
\* and the death toll there are those of the sequential run on the same
\* inputs, and so are the final world and the value goi returns.
C1_Deterministic ==
    /\ pc = "loop" =>
          /\ IsLive(world)
          /\ heap[world].data = RefRun(i - 1).world
          /\ deathToll = RefRun(i - 1).toll
    /\ (pc = "join" /\ IsLive(world)) => heap[world].data = RefRun(nGenerations).world
    /\ Returned => ret = RefRun(nGenerations).toll

C1_Witness ==
    /\ Returned /\ nThreads >= 2 /\ nGenerations = MaxGen /\ nInvasions = 1
    /\ ret >= 4
    /\ \A w \in Workers : items[w].endIdx > items[w].startIdx

\* C2: a worker computing generation g >= 2 finds every worker past the
\* barrier of generation g - 1, the coordinator in generation g, and the
\* world it reads (generation g - 1's next buffer) written in every cell.
C2_NoPipelining ==
    \A w \in Workers :
        (Computing(w) /\ wk[w] >= 2) =>
            /\ \A v \in Workers : \/ wk[v] >= wk[w]
                                  \/ wk[v] = wk[w] - 1 /\ wpc[v] = "passed"
            /\ i = wk[w]
            /\ IsLive(items[w].world)
            /\ \A c \in 1 .. totalGrids : heap[items[w].world].data[c] # Uninit

C2_Witness ==
    \E w, v \in Workers :
        /\ Computing(w) /\ wk[w] = 2
        /\ wk[v] = 1 /\ wpc[v] = "passed"

\* Worker w's range [startIdx, endIdx) and its size.
PartRange(w) == items[w].startIdx .. items[w].endIdx - 1
PartSize(w) == items[w].endIdx - items[w].startIdx

C3_PartitionInv ==
    SetupDone =>
        /\ \A v, w \in Workers : v # w => PartRange(v) \cap PartRange(w) = {}
        /\ UNION {PartRange(w) : w \in Workers} = 0 .. nRows * nCols - 1
        /\ \A w \in Workers : w < nThreads - 1 => PartSize(w) = (nRows * nCols) \div nThreads
        /\ PartSize(nThreads - 1) =
              nRows * nCols - (nThreads - 1) * ((nRows * nCols) \div nThreads)

C3_PartitionStable ==
    SetupDone => \A w \in Workers : /\ items'[w].startIdx = items[w].startIdx
                                    /\ items'[w].endIdx = items[w].endIdx

\* C3: once set up, the workers' ranges are pairwise disjoint, cover exactly
\* [0, nRows*nCols), have size total/nThreads but for the last, which holds
\* the rest; and no step changes a range.
C3_Partition == []C3_PartitionInv /\ [][C3_PartitionStable]_vars

C3_Witness ==
    /\ Returned /\ nThreads = 3 /\ nRows * nCols = 4 /\ nGenerations = MaxGen
    /\ PartSize(0) = 1 /\ PartSize(1) = 1 /\ PartSize(2) = 2

\* The size of the largest partition less that of the smallest.
Imbalance ==
    LET sizes == {PartSize(w) : w \in Workers}
    IN  (CHOOSE a \in sizes : \A b \in sizes : a >= b)
        - (CHOOSE a \in sizes : \A b \in sizes : a <= b)

\* C4 as stated: the largest partition exceeds the smallest by at most one
\* row of cells (nCols).
C4_ImbalanceOneRow == SetupDone => Imbalance <= nCols

\* C4 amended: the imbalance is the remainder (nRows*nCols) mod nThreads, so
\* at most nThreads - 1 cells, whatever nCols is.
C4_ImbalanceRemainder ==
    SetupDone => /\ Imbalance = (nRows * nCols) % nThreads
                 /\ Imbalance <= nThreads - 1

C4_Witness == SetupDone /\ pc = "loop" /\ Imbalance = 2 /\ nCols = 1

\* The toll is the number of deaths reported by getNextState less those
\* whose increment is still under way; goi returns the number reported.
C5_TollInv ==
    /\ deathToll = reports - Cardinality({w \in Workers :
                                            wpc[w] \in {"dtLock", "dtLoad", "dtStore"}})
    /\ Returned => ret = reports

\* The toll changes only by +1, in the store of the worker holding the mutex.
C5_TollStep ==
    deathToll' # deathToll =>
        /\ deathToll' = deathToll + 1
        /\ mutex \in Workers
        /\ wpc[mutex] = "dtStore" /\ wpc'[mutex] = "dtUnlock"

\* C5: the death toll changes only by +1, in the store of the worker that
\* holds the mutex, so it never decreases; no increment is lost: at every
\* moment it is the number of deaths reported by getNextState less those
\* whose increment is still under way, and goi returns the number reported.
C5_TollExact == []C5_TollInv /\ [][C5_TollStep]_vars

C5_Witness ==
    /\ \E v, w \in Workers : v # w /\ wpc[v] = "dtStore" /\ wpc[w] = "dtLock"
    /\ deathToll >= 1

\* C6 as stated: when goi returns -1 nothing it allocated is still
\* allocated, nothing was freed twice or used unallocated, and no worker
\* thread is left running or blocked.
C6_FailureReleasesAll ==
    (pc = "done" /\ ret = -1) =>
        /\ LiveBuffers = {}
        /\ sharedStructs # "live"
        /\ \A w \in Workers : items[w].alloc # "live"
        /\ fault = {}
        /\ \A w \in Workers : wpc[w] \in {"none", "joined"}

\* C7 as stated: without a failure goi runs nGenerations iterations, joins
\* the threads it created and no other, frees the last buffer and returns
\* the death toll; and it never gets stuck before that.
C7_RunsJoinsReturns ==
    /\ "joinUncreated" \notin fault
    /\ Returned => /\ i = nGenerations + 1
                   /\ \A w \in Workers : wpc[w] = "joined"
                   /\ LiveBuffers = {}
                   /\ ret = deathToll /\ ret >= 0
    /\ pc \notin {"done", "exit", "crashed"} => ENABLED Next

\* C8: on a world without live cells and with an empty schedule, no buffer
\* ever holds a live cell, the world of every generation is the initial one,
\* and the death toll stays 0, returned value included.
C8_DeadStaysDead ==
    ((\A c \in 1 .. totalGrids : startWorld[c] = 0) /\ nInvasions = 0) =>
        /\ \A p \in LiveBuffers : \A c \in 1 .. totalGrids : heap[p].data[c] \in {0, Uninit}
        /\ pc = "loop" => heap[world].data = startWorld
        /\ deathToll = 0 /\ reports = 0
        /\ Returned => ret = 0

C8_Witness ==
    /\ \A c \in 1 .. totalGrids : startWorld[c] = 0
    /\ nInvasions = 0 /\ nThreads >= 2 /\ nGenerations = MaxGen /\ totalGrids = 4
    /\ Returned /\ ret = 0

\* Worker w may still read or write the buffers its control block names:
\* it was created or let through its gate for a generation whose barrier it
\* has not reached.
CanAccess(w) ==
    \/ wpc[w] \in {"start", "cell", "dtLock", "dtLoad", "dtStore", "dtUnlock"}
    \/ wpc[w] = "gate" /\ isReady[w] = "unlocked"
    \/ wpc[w] = "passed" /\ isReady[w] = "unlocked" /\ wk[w] < nGenerations
ItemBuffers(w) == {items[w].world, items[w].inv, items[w].wholeNewWorld}
FreedNow(p) == heap[p].st = "live" /\ heap'[p].st = "freed"

\* No worker ever reads or writes a buffer that is not allocated, and a
\* worker about to compute a cell finds its three buffers allocated.
C13_NoUseAfterFreeInv ==
    /\ "badRead" \notin fault /\ "badWrite" \notin fault
    /\ \A w \in Workers : wpc[w] = "cell" =>
          /\ IsLive(items[w].world) /\ IsLive(items[w].wholeNewWorld)
          /\ items[w].inv # NULL => IsLive(items[w].inv)

\* A step that frees a buffer frees none that a worker may still use; and
\* when goi goes on after it, the coordinator is past the barrier and the
\* buffers are the generation's overlay copy and old world.
C13_FreeStep ==
    \A p \in DOMAIN heap :
        FreedNow(p) =>
            /\ \A w \in Workers : CanAccess(w) => p \notin ItemBuffers(w)
            /\ pc' = "loop" => (pc = "passed" /\ p \in {inv, world}
                                /\ \A w \in Workers : wpc[w] \in {"passed", "gate", "exited"})

\* C13: buffers are freed only when no worker can still read or write them
\* (in the loop: the overlay copy and the old world, after the barrier), and
\* no worker touches a freed buffer.
C13_NoUseAfterFree == []C13_NoUseAfterFreeInv /\ [][C13_FreeStep]_vars

C13_Witness ==
    /\ nThreads >= 2 /\ i = 2 /\ pc = "release"
    /\ Cardinality({p \in DOMAIN heap : heap[p].st = "freed"}) = 2
    /\ \E w, v \in Workers : wpc[w] = "cell" /\ wpc[v] = "passed"

\* The int buffers goi holds in each phase of a generation.
Held ==
    IF pc \in {"mallocStructs", "mallocWorld"} THEN {}
    ELSE IF pc \in {"setup", "loop", "join"} THEN {world}
    ELSE IF pc = "mallocNext" THEN {world, inv} \ {NULL}
    ELSE IF pc \in {"publish", "release", "barrier", "inBarrier", "passed"}
    THEN {world, inv, wholeNewWorld} \ {NULL}
    ELSE LiveBuffers

\* C14: nothing is freed that is not allocated; at every point the live
\* int buffers are exactly those goi holds (one world at the top of every
\* generation, the overlay copy only within its generation); and when goi
\* returns the death toll, no int buffer, control block or array is left.
C14_FreedExactlyOnce ==
    /\ "badFree" \notin fault
    /\ pc \notin {"done", "exit", "crashed"} => LiveBuffers = Held
    /\ pc \in {"setup", "loop", "join"} => Cardinality(LiveBuffers) = 1
    /\ Returned => /\ LiveBuffers = {}
                   /\ \A p \in DOMAIN heap : heap[p].st = "freed"
                   /\ sharedStructs = "freed"
                   /\ \A w \in Workers : items[w].alloc = "freed"

C14_Witness ==
    /\ Returned /\ nGenerations = MaxGen /\ invasionIndex = 2
    /\ Len(heap) = 1 + 2 * MaxGen

\* In generation k worker w's control block holds what goi published for k.
C15_PublishedInv ==
    \A w \in Workers :
        Computing(w) =>
            /\ items[w].iteration = wk[w] /\ i = wk[w]
            /\ items[w].world = world /\ items[w].inv = inv
            /\ items[w].wholeNewWorld = wholeNewWorld
            /\ IsLive(world) /\ heap[world].data = RefRun(i - 1).world

\* The control block of a worker is written only while the worker is not
\* yet created, waits at its locked gate or is on its way there.
C15_PublishStep ==
    \A w \in Workers :
        items'[w] # items[w] =>
            \/ wpc[w] \in {"none", "joined"}
            \/ wpc[w] \in {"passed", "gate"} /\ isReady[w] = "locked"

\* C15: a worker computing in iteration k has iteration = k and the world,
\* overlay and next buffer of generation k in its control block, and goi
\* does not write the block between the worker's gate and its barrier.
C15_Published == []C15_PublishedInv /\ [][C15_PublishStep]_vars

C15_Witness ==
    \E w \in Workers : /\ Computing(w) /\ wk[w] = 2 /\ w >= 1
                       /\ items[w].inv # NULL /\ items[w].iteration = 2


Created(w) == wpc[w] # "none"

\* The claim as written: while a worker computes, every worker thread has
\* been created.
C16_AllCreatedBeforeCompute ==
    \A w \in Workers : Computing(w) => \A v \in Workers : Created(v)

C16_LifeInv ==
    /\ \A w \in Workers : Computing(w) => \A v \in 0 .. w : Created(v)
    /\ spawnThreads => \A w \in Workers : Created(w)
    /\ nGenerations = 0 => \A w \in Workers : ~Created(w)
    /\ \A w \in Workers : wpc[w] \in {"exited", "joined"} => wk[w] = nGenerations + 1

C16_LifeStep ==
    \A w \in Workers :
        /\ (~Created(w) /\ wpc'[w] # "none") =>
              /\ wpc'[w] = "start"
              /\ pc = "release" /\ i = 1 /\ t = w /\ ~spawnThreads
              /\ items[w].iteration = 1
              /\ \A v \in Workers : Created(v) <=> v < w
        /\ wpc[w] \notin {"none", "start"} => wpc'[w] \notin {"none", "start"}
        /\ wpc[w] = "start" => wpc'[w] # "none"
        /\ (wpc[w] # "exited" /\ wpc'[w] = "exited") =>
              (wpc[w] = "passed" /\ wk[w] = nGenerations /\ barrier = 0)
        /\ wpc[w] = "exited" => wpc'[w] \in {"exited", "joined"}

\* C16: a worker thread is created at most once, and only in generation 1
\* as the coordinator releases it, after its block was published and after
\* the workers before it were created (which may already compute); once
\* created it is never created again, and it ends only on leaving the
\* barrier of generation nGenerations. With nGenerations = 0 none is created.
C16_CreatedInGenerationOne == []C16_LifeInv /\ [][C16_LifeStep]_vars

C16_Witness ==
    \E w, v \in Workers : Computing(w) /\ wk[w] = 1 /\ ~Created(v)

WellFormed ==
    \A j \in 1 .. nInvasions :
        /\ invasionTimes[j] \in 1 .. nGenerations
        /\ j > 1 => invasionTimes[j] > invasionTimes[j - 1]
InGeneration == pc \in {"mallocNext", "publish", "release", "barrier", "inBarrier", "passed"}
EventsAt(g) == {j \in 1 .. nInvasions : invasionTimes[j] = g}
EventsBefore(g) == {j \in 1 .. nInvasions : invasionTimes[j] < g}
NextOf(overlay) ==
    [c \in 1 .. totalGrids |->
        getNextState(heap[world].data, overlay, nRows, nCols,
                     getRow(nRows, nCols, c - 1), getCol(nRows, nCols, c - 1)).next]

C17_ScheduleInv ==
    /\ invasionIndex \in 0 .. nInvasions
    /\ pc = "loop" => invasionIndex <= i - 1
    /\ InGeneration => invasionIndex <= i
    /\ WellFormed =>
          /\ pc = "loop" => invasionIndex = Cardinality(EventsBefore(i))
          /\ InGeneration =>
                IF EventsAt(i) # {}
                THEN /\ EventsAt(i) = {invasionIndex}
                     /\ IsLive(inv) /\ heap[inv].data = invasionPlans[invasionIndex]
                     /\ pc = "passed" =>
                           heap[wholeNewWorld].data = NextOf(invasionPlans[invasionIndex])
                ELSE /\ inv = NULL
                     /\ pc = "passed" => heap[wholeNewWorld].data = NextOf(NoGrid)

C17_ScheduleStep ==
    invasionIndex' # invasionIndex =>
        /\ invasionIndex' = invasionIndex + 1
        /\ pc = "loop" /\ pc' = "mallocNext" /\ i' = i

\* C17: invasionIndex never decreases and grows by at most 1 in a
\* generation; with times strictly ascending in 1..nGenerations, generation
\* g runs with the overlay of the event whose time is g, and with no overlay
\* if there is none.
C17_ScheduleInOrder == []C17_ScheduleInv /\ [][C17_ScheduleStep]_vars

C17_Witness ==
    /\ nInvasions = 2 /\ invasionTimes = << 1, 2 >> /\ pc = "passed" /\ i = 2
    /\ invasionIndex = 2 /\ heap[inv].data = invasionPlans[2]
    /\ heap[wholeNewWorld].data # NextOf(NoGrid)

\* The cells of its partition worker w has written in generation i.
Written(w) ==
    IF ~Created(w) \/ wk[w] < i THEN {}
    ELSE IF wk[w] > i THEN PartRange(w)
    ELSE IF wpc[w] = "cell" THEN items[w].startIdx .. wi[w] - 1
    ELSE IF Computing(w) THEN items[w].startIdx .. wi[w]
    ELSE IF wpc[w] \in {"barrier", "inBarrier", "passed"} THEN PartRange(w)
    ELSE {}

C18_FrameInv ==
    /\ (pc \in {"publish", "release", "barrier", "inBarrier", "passed"} /\ IsLive(wholeNewWorld)) =>
          \A c \in 0 .. totalGrids - 1 :
              heap[wholeNewWorld].data[c + 1] # Uninit <=>
                  \E w \in Workers : c \in Written(w)
    /\ pc = "passed" => \A c \in 1 .. totalGrids : heap[wholeNewWorld].data[c] # Uninit

C18_FrameStep ==
    \A p \in DOMAIN heap :
        (heap[p].st = "live" /\ heap'[p].st = "live" /\ heap'[p].data # heap[p].data) =>
            \E w \in Workers :
                /\ wpc[w] = "cell" /\ (wpc'[w] # "cell" \/ wi'[w] # wi[w])
                /\ p = wholeNewWorld /\ p = items[w].wholeNewWorld
                /\ p \notin {world, inv, items[w].world, items[w].inv}
                /\ wi[w] \in PartRange(w)
                /\ \A c \in 1 .. totalGrids :
                      heap'[p].data[c] # heap[p].data[c] =>
                          (c = wi[w] + 1 /\ heap[p].data[c] = Uninit)

\* C18: a buffer's contents change only when a worker writes the cell it is
\* at, which lies in its own partition of the generation's next buffer and
\* was not written before; the world and the overlay never change; and
\* when the coordinator has passed the barrier every cell of next is written.
C18_WritesOwnCellsOnce == []C18_FrameInv /\ [][C18_FrameStep]_vars

C18_Witness ==
    /\ pc = "passed" /\ i = 2 /\ nThreads = MaxThreads /\ totalGrids = MaxRows * MaxCols
    /\ inv # NULL
    /\ \A c \in 1 .. totalGrids : heap[wholeNewWorld].data[c] # Uninit

\* Times worker w took its gate, and times the coordinator released it.
Acquisitions(w) ==
    IF wpc[w] \in {"none", "start"} THEN 0
    ELSE IF wpc[w] = "gate" THEN wk[w] - 1
    ELSE IF wpc[w] \in {"exited", "joined"} THEN wk[w] - 1
    ELSE wk[w]
Releases(w) ==
    IF pc \in {"mallocStructs", "mallocWorld", "setup"} THEN 0
    ELSE IF pc \in {"barrier", "inBarrier", "passed"} THEN i
    ELSE IF pc \in {"publish", "release", "exit"} /\ t > w THEN i
    ELSE i - 1

C19_GateInv ==
    \A w \in Workers :
        isReady[w] # "uninit" =>
            /\ Releases(w) \in {Acquisitions(w), Acquisitions(w) + 1}
            /\ isReady[w] = "locked" => Releases(w) = Acquisitions(w)
            /\ (isReady[w] = "unlocked" /\ Releases(w) > 0) =>
                  Releases(w) = Acquisitions(w) + 1
            /\ wpc[w] \in {"exited", "joined"} => Acquisitions(w) = nGenerations

C19_GateStep ==
    /\ (pc = "release" /\ pc' # "release" /\ i >= 2) =>
          (isReady[t] = "locked" /\ wpc[t] \notin {"none", "start", "exited", "joined"})
    /\ \A w \in Workers :
          /\ (isReady[w] = "locked" /\ isReady'[w] # "locked") =>
                (pc = "release" /\ t = w /\ isReady'[w] = "unlocked")
          /\ (wpc[w] = "gate" /\ wpc'[w] # "gate") =>
                (isReady[w] = "unlocked" /\ isReady'[w] = "locked"
                 /\ items[w].iteration = wk[w])

\* C19: for every worker the releases of its gate and its passes through
\* it alternate, starting with a release: a pass needs a release not yet
\* used, every release from generation 2 on finds the gate held by the
\* worker, and a worker that ended passed exactly nGenerations times.
C19_GateAlternates == []C19_GateInv /\ [][C19_GateStep]_vars

C19_Witness ==
    /\ pc = "release" /\ i = 2 /\ isReady[t] = "locked" /\ wpc[t] = "gate"
    /\ t >= 1 /\ wpc[0] = "cell" /\ wk[0] = 2

Malformed(j) ==
    \/ invasionTimes[j] < 1
    \/ invasionTimes[j] > nGenerations
    \/ j > 1 /\ invasionTimes[j] <= invasionTimes[j - 1]

\* C20: if event j has a time below 1, above nGenerations or not above the
\* time of event j - 1, then events j and later are never consumed, every
\* overlay in use is that of an earlier event at its own time, and when goi
\* returns a toll it has run all nGenerations generations.
C20_MalformedNeverApplied ==
    \A j \in 1 .. nInvasions :
        Malformed(j) =>
            /\ invasionIndex < j
            /\ (InGeneration /\ inv # NULL) =>
                  /\ invasionIndex >= 1 /\ invasionTimes[invasionIndex] = i
                  /\ IsLive(inv) /\ heap[inv].data = invasionPlans[invasionIndex]
            /\ (InGeneration /\ inv = NULL /\ pc = "passed") =>
                  heap[wholeNewWorld].data = NextOf(NoGrid)
            /\ Returned => (i = nGenerations + 1 /\ ret = deathToll /\ ret >= 0)
            /\ pc = "loop" => i <= nGenerations + 1

C20_Witness ==
    /\ nInvasions = 2 /\ invasionTimes = << 2, 1 >> /\ nGenerations = 2
    /\ Returned /\ invasionIndex = 1 /\ i = 3


\* ------------------------------------------------- SpecRule: getNextState

RuleCells == 0 .. RuleRows * RuleCols - 1
RuleGrids == [1 .. RuleRows * RuleCols -> 0 .. RuleFactions]
\* Overlays handed to the rule engine: none, or one value everywhere.
RuleOverlays == {NoGrid} \cup {[c \in 1 .. RuleRows * RuleCols |-> v] : v \in 0 .. RuleFactions}

InitRule ==
    /\ call \in [world : RuleGrids, inv : RuleOverlays, done : {FALSE},
                 index : {0}, next : {0}, died : {FALSE}]
    /\ nThreads = 1 /\ nGenerations = 0 /\ nRows = RuleRows /\ nCols = RuleCols
    /\ startWorld = call.world
    /\ nInvasions = 0 /\ invasionTimes = << >> /\ invasionPlans = << >>
    /\ MainStart

\* One call of getNextState on cell index, as subroutine makes it (lines 172-175).
ApplyRule(cell) ==
    /\ ~call.done
    /\ LET row == getRow(RuleRows, RuleCols, cell)
           col == getCol(RuleRows, RuleCols, cell)
           r == getNextState(call.world, call.inv, RuleRows, RuleCols, row, col)
       IN  call' = [call EXCEPT !.done = TRUE, !.index = cell,
                                !.next = r.next, !.died = r.died]
    /\ UNCHANGED mainVars

NextRule == \E cell \in RuleCells : ApplyRule(cell)

SpecRule == InitRule /\ [][NextRule]_vars

\* The called cell's faction, overlay value and neighbour tallies, read off
\* the grid directly (cell index c is element c + 1; neighbours differ by at
\* most one in row and in column).
RuleAdjacent(c, d) ==
    /\ c # d
    /\ (c \div RuleCols) - (d \div RuleCols) \in -1 .. 1
    /\ (c % RuleCols) - (d % RuleCols) \in -1 .. 1
CallFaction == call.world[call.index + 1]
CallOverlay == IF call.inv = NoGrid THEN 0 ELSE call.inv[call.index + 1]
CallHostile == Cardinality({d \in RuleCells : /\ RuleAdjacent(call.index, d)
                                              /\ call.world[d + 1] # 0
                                              /\ call.world[d + 1] # CallFaction})
CallFriendly == Cardinality({d \in RuleCells : /\ RuleAdjacent(call.index, d)
                                               /\ call.world[d + 1] = CallFaction})

\* C9: with an overlay, a cell whose overlay value is nonzero takes that value
\* whatever its neighbours are, and counts one death iff it was live; a cell
\* whose overlay value is 0 gets what the neighbour rules give without overlay.
C9_InvasionOverwrites ==
    (call.done /\ call.inv # NoGrid) =>
        IF CallOverlay # 0
        THEN /\ call.next = CallOverlay
             /\ call.died = (CallFaction # 0)
        ELSE LET r == getNextState(call.world, NoGrid, RuleRows, RuleCols,
                                   getRow(RuleRows, RuleCols, call.index),
                                   getCol(RuleRows, RuleCols, call.index))
             IN  call.next = r.next /\ call.died = r.died

C9_Witness ==
    /\ call.done /\ call.inv # NoGrid /\ CallOverlay # 0
    /\ CallFaction # 0 /\ CallFaction # CallOverlay
    /\ CallHostile = 0 /\ CallFriendly = 2
    /\ call.died

\* C10 as stated: a live cell with at least one hostile neighbour becomes
\* dead and counts exactly one death, whatever its friendly count.
C10_HostileAlwaysDead ==
    (call.done /\ CallFaction # 0 /\ CallHostile >= 1) =>
        (call.next = DEAD_FACTION /\ call.died)

\* C10 amended: such a cell counts exactly one death in every case; it
\* becomes dead unless an overlay lands on it that generation, and then it
\* takes the overlay's faction.
C10_HostileDies ==
    (call.done /\ CallFaction # 0 /\ CallHostile >= 1) =>
        /\ call.died
        /\ call.next = IF CallOverlay # 0 THEN CallOverlay ELSE DEAD_FACTION

C10_Witness ==
    /\ call.done /\ CallOverlay = 0 /\ CallFaction # 0
    /\ CallHostile = 1 /\ CallFriendly = 3
    /\ call.next = DEAD_FACTION /\ call.died

\* C11: a live cell that is not invaded and has no hostile neighbour keeps
\* its faction iff it has 2 or 3 friendly neighbours; otherwise it becomes
\* dead, and no death is counted for it.
C11_SurvivalRule ==
    (call.done /\ CallOverlay = 0 /\ CallFaction # 0 /\ CallHostile = 0) =>
        /\ call.next = (IF CallFriendly \in {2, 3} THEN CallFaction ELSE DEAD_FACTION)
        /\ ~call.died

C11_Witness ==
    /\ call.done /\ CallOverlay = 0 /\ CallFaction # 0 /\ CallHostile = 0
    /\ CallFriendly >= 4
    /\ call.next = DEAD_FACTION /\ ~call.died

\* The neighbours of the called cell that belong to faction f.
CallNeighbours(f) == Cardinality({d \in RuleCells : /\ RuleAdjacent(call.index, d)
                                                    /\ call.world[d + 1] = f})
CallBirthable == {f \in 1 .. MAX_FACTIONS - 1 : CallNeighbours(f) = 3}

\* C12: a dead cell that is not invaded becomes the highest faction id in
\* 1..MAX_FACTIONS-1 that has exactly 3 neighbours of that faction, stays
\* dead if there is none, and never counts a death.
C12_BirthRule ==
    (call.done /\ CallOverlay = 0 /\ CallFaction = 0) =>
        /\ call.next = (IF CallBirthable = {} THEN DEAD_FACTION
                        ELSE CHOOSE f \in CallBirthable : \A g \in CallBirthable : g <= f)
        /\ ~call.died

C12_Witness ==
    /\ call.done /\ CallOverlay = 0 /\ CallFaction = 0
    /\ Cardinality(CallBirthable) = 2
    /\ call.next = 2 /\ ~call.died

====
